---- MODULE Spec2Model ----
(***************************************************************************)
(* Model of app.py: the contract/transaction reconciliation dashboard.     *)
(*                                                                         *)
(*  - the Reference Parser (extract_code_from_ref),                        *)
(*  - the Schedule Generator (generate_payment_schedule),                  *)
(*  - one Streamlit session: the script is re-run from top to bottom on    *)
(*    every interaction, with st.session_state surviving between runs.     *)
(***************************************************************************)
EXTENDS Integers, Sequences, FiniteSets, TLC

VARIABLES
    reference,      \* argument handed to extract_code_from_ref
    extracted,      \* what the call produced (pending before the call)
    raw_contract,   \* a contract row as read from the sheet
    contract_row,   \* the row handed to generate_payment_schedule
    schedule,       \* what generate_payment_schedule produced
    today,          \* the calendar day of pd.to_datetime('today')
    uploaded_file_1,    \* file held by the contracts uploader, or no file
    uploaded_file_2,    \* file held by the transactions uploader, or no file
    selected_code,      \* value of the contract selectbox
    df1_processed,      \* st.session_state.df1_processed
    df2_final,          \* st.session_state.df2_final
    attempt_1,      \* what the last run did with the contracts file
    attempt_2,      \* what the last run did with the transactions file
    contract_codes, \* options the selectbox was rendered with
    reco,           \* reconciliation sets computed by the last run
    schedule_df,    \* schedule generated by the last run
    status          \* as-of-today analysis computed by the last run

parserVars == <<reference, extracted>>

scheduleVars == <<raw_contract, contract_row, schedule>>

sessionVars ==
    <<today, uploaded_file_1, uploaded_file_2, selected_code, df1_processed,
      df2_final, attempt_1, attempt_2, contract_codes, reco, schedule_df,
      status>>

vars ==
    <<reference, extracted, raw_contract, contract_row, schedule, today,
      uploaded_file_1, uploaded_file_2, selected_code, df1_processed,
      df2_final, attempt_1, attempt_2, contract_codes, reco, schedule_df,
      status>>

(***************************************************************************)
(* Text.  A Python str is a sequence of one-character strings.  A cell     *)
(* that is not text (a number, NaN for a missing cell) is a tagged value.  *)
(***************************************************************************)
UpperLetters ==
    {"A","B","C","D","E","F","G","H","I","J","K","L","M",
     "N","O","P","Q","R","S","T","U","V","W","X","Y","Z"}

\* the range 0-9 of the character class
Digits == {"0","1","2","3","4","5","6","7","8","9"}

\* Decimal digits outside ASCII, each a single character of the str:
\* ARABIC-INDIC DIGIT THREE and ARABIC-INDIC DIGIT SEVEN stand for the
\* Unicode decimal digits (category Nd) other than 0-9.
ArabicIndicDigits == {"U+0663", "U+0667"}

\* \d in a str pattern: every Unicode decimal digit, not only 0-9
DecimalDigits == Digits \cup ArabicIndicDigits

\* the character class [A-Z0-9&_-] of the pattern
CodeChars == UpperLetters \cup Digits \cup {"&", "_", "-"}

Text(chars) == [tag |-> "str", chars |-> chars]

NaN == [tag |-> "float", chars |-> <<>>]

Number123 == [tag |-> "int", chars |-> <<>>]

isinstance_str(value) == value.tag = "str"

Max(S) == CHOOSE x \in S : \A y \in S : y <= x

(***************************************************************************)
(* re.findall(r'[A-Z0-9&_-]+/\d+', string)                                 *)
(***************************************************************************)
RECURSIVE CodeRun(_, _)
\* length of the run of class characters that starts at position i
CodeRun(s, i) ==
    IF i > Len(s) \/ s[i] \notin CodeChars THEN 0 ELSE 1 + CodeRun(s, i + 1)

RECURSIVE DigitRun(_, _)
\* length of the run of \d characters that starts at position i
DigitRun(s, i) ==
    IF i > Len(s) \/ s[i] \notin DecimalDigits THEN 0
    ELSE 1 + DigitRun(s, i + 1)

\* The regex tried at position i: the class is repeated greedily, and the
\* engine backs off one character at a time until '/' and \d+ follow.
\* The result is the last position of the match, 0 when there is none.
match_at(s, i) ==
    LET ks == {k \in 1..CodeRun(s, i) :
                 /\ i + k <= Len(s)
                 /\ s[i + k] = "/"
                 /\ DigitRun(s, i + k + 1) >= 1}
    IN  IF ks = {} THEN 0
        ELSE LET k == Max(ks) IN i + k + DigitRun(s, i + k + 1)

RECURSIVE findall_from(_, _, _)
\* the scan of findall: leftmost match at or after pos, then resume after it
findall_from(s, pos, acc) ==
    IF pos > Len(s) THEN acc
    ELSE LET e == match_at(s, pos)
         IN  IF e = 0 THEN findall_from(s, pos + 1, acc)
             ELSE findall_from(s, e + 1, Append(acc, SubSeq(s, pos, e)))

re_findall(s) == findall_from(s, 1, <<>>)

(***************************************************************************)
(* extract_code_from_ref.  The outcome records the returned value, whether *)
(* the call raised, and whether the pattern scan ran.                      *)
(***************************************************************************)
Returned(value, scanned) ==
    [raised |-> FALSE, value |-> value, scanned |-> scanned]

Raised == [raised |-> TRUE, value |-> <<>>, scanned |-> TRUE]

Pending == [raised |-> FALSE, value |-> <<>>, scanned |-> FALSE,
            pending |-> TRUE]

extract_code_from_ref(ref) ==
    IF ~isinstance_str(ref) THEN Returned(<<>>, FALSE)
    ELSE LET matches == re_findall(ref.chars)
         IN  Returned(IF matches # <<>> THEN matches[Len(matches)] ELSE <<>>,
                      TRUE)

(***************************************************************************)
(* Dates.  A pandas Timestamp is a calendar day; a formatted date is the   *)
(* text 'DD-MM-YYYY', kept as its three numeric fields in written order.   *)
(***************************************************************************)
Timestamp(y, m, d) == [tag |-> "Timestamp", y |-> y, m |-> m, d |-> d]

NaT == [tag |-> "NaT"]

NoneValue == [tag |-> "NoneType"]

DateText(fields) == [tag |-> "str", fields |-> fields]

EmptyText == DateText(<<>>)

GarbageText == DateText(<<"n/a">>)

IsLeap(y) == (y % 4 = 0 /\ y % 100 # 0) \/ y % 400 = 0

DaysInMonth(y, m) ==
    IF m = 2 THEN (IF IsLeap(y) THEN 29 ELSE 28)
    ELSE IF m \in {4, 6, 9, 11} THEN 30 ELSE 31

IsCalendarDay(y, m, d) ==
    m \in 1..12 /\ d >= 1 /\ d <= DaysInMonth(y, m)

\* Timestamp comparison
DateLE(a, b) ==
    \/ a.y < b.y
    \/ a.y = b.y /\ a.m < b.m
    \/ a.y = b.y /\ a.m = b.m /\ a.d <= b.d

MonthNames ==
    <<"January", "February", "March", "April", "May", "June", "July",
      "August", "September", "October", "November", "December">>

\* strftime('%B %Y')
strftime_BY(ts) == <<MonthNames[ts.m], ts.y>>

\* strftime('%d-%m-%Y')
strftime_dmY(ts) == DateText(<<ts.d, ts.m, ts.y>>)

Value(v) == [exc |-> "", val |-> v]

Raise(kind) == [exc |-> kind, val |-> NaT]

\* the date a three-field text denotes: the preferred reading first, the
\* other reading when the preferred one is not a calendar day
parse_fields(f, dayfirst) ==
    LET dm == IsCalendarDay(f[3], f[2], f[1])
        md == IsCalendarDay(f[3], f[1], f[2])
    IN  IF dayfirst /\ dm THEN Value(Timestamp(f[3], f[2], f[1]))
        ELSE IF md THEN Value(Timestamp(f[3], f[1], f[2]))
        ELSE IF dm THEN Value(Timestamp(f[3], f[2], f[1]))
        ELSE Raise("ValueError")

\* mutant: the text is read month first
to_datetime_monthfirst(value, dayfirst) ==
    IF value.tag = "Timestamp" THEN Value(value)
    ELSE IF value.tag \in {"NaT", "float"} THEN Value(NaT)
    ELSE IF value.tag = "NoneType" THEN Value(NoneValue)
    ELSE IF value.fields = <<>> THEN Value(NaT)
    ELSE IF Len(value.fields) = 3 THEN parse_fields(value.fields, FALSE)
    ELSE Raise("ValueError")

\* pd.to_datetime(value, dayfirst=...) on a scalar
to_datetime(value, dayfirst) ==
    IF value.tag = "Timestamp" THEN Value(value)
    ELSE IF value.tag \in {"NaT", "float"} THEN Value(NaT)
    ELSE IF value.tag = "NoneType" THEN Value(NoneValue)
    ELSE IF value.fields = <<>> THEN Value(NaT)
    ELSE IF Len(value.fields) = 3 THEN parse_fields(value.fields, dayfirst)
    ELSE Raise("ValueError")

\* pd.to_datetime(column, errors='coerce').dt.strftime('%d-%m-%Y').fillna('')
\* for one cell of the column
normalize_date(cell) ==
    LET parsed == to_datetime(cell, FALSE)
    IN  IF parsed.exc # "" \/ parsed.val.tag # "Timestamp" THEN EmptyText
        ELSE strftime_dmY(parsed.val)

next_month_start(ts) ==
    IF ts.m = 12 THEN Timestamp(ts.y + 1, 1, 1) ELSE Timestamp(ts.y, ts.m + 1, 1)

RECURSIVE month_starts(_, _, _)
month_starts(cur, end, acc) ==
    IF ~DateLE(cur, end) THEN acc
    ELSE month_starts(next_month_start(cur), end, Append(acc, cur))

\* mutant: the first anchor is the month start strictly after start
date_range_after_start(start, end) ==
    IF start.tag = "NoneType" \/ end.tag = "NoneType" THEN Raise("ValueError")
    ELSE IF start.tag = "NaT" \/ end.tag = "NaT" THEN Raise("ValueError")
    ELSE Value(month_starts(next_month_start(start), end, <<>>))

\* pd.date_range(start=start, end=end, freq='MS'): the month starts within
\* [start, end]; a missing or NaT bound is a ValueError
date_range_MS(start, end) ==
    IF start.tag = "NoneType" \/ end.tag = "NoneType" THEN Raise("ValueError")
    ELSE IF start.tag = "NaT" \/ end.tag = "NaT" THEN Raise("ValueError")
    ELSE LET first == IF start.d = 1 THEN start ELSE next_month_start(start)
         IN  Value(month_starts(first, end, <<>>))

EmptyFrame == <<>>

ScheduleReturned(rows) == [raised |-> FALSE, rows |-> rows]

ScheduleRaised == [raised |-> TRUE, rows |-> <<>>]

\* mutant: only TypeError is handled
schedule_except_TypeError(exc) ==
    IF exc = "TypeError" THEN ScheduleReturned(EmptyFrame) ELSE ScheduleRaised

\* except (ValueError, TypeError): return pd.DataFrame()
schedule_except(exc) ==
    IF exc \in {"ValueError", "TypeError"} THEN ScheduleReturned(EmptyFrame)
    ELSE ScheduleRaised

generate_payment_schedule(row) ==
    LET start_date == to_datetime(row.StartDate, TRUE)
        end_date == to_datetime(row.EndDate, TRUE)
    IN  IF start_date.exc # "" THEN schedule_except(start_date.exc)
        ELSE IF end_date.exc # "" THEN schedule_except(end_date.exc)
        ELSE LET monthly_dates == date_range_MS(start_date.val, end_date.val)
             IN  IF monthly_dates.exc # ""
                     THEN schedule_except(monthly_dates.exc)
                 ELSE IF monthly_dates.val = <<>>
                     THEN ScheduleReturned(EmptyFrame)
                 ELSE ScheduleReturned(
                        [i \in 1..Len(monthly_dates.val) |->
                            [PaymentMonth |->
                                 strftime_BY(monthly_dates.val[i]),
                             PaymentDate |-> monthly_dates.val[i],
                             Amount |-> row.InstallmentAmount]])

(***************************************************************************)
(* Text helpers used by the session: str.lower() and sorted().             *)
(***************************************************************************)
UpperOrder ==
    <<"A","B","C","D","E","F","G","H","I","J","K","L","M",
      "N","O","P","Q","R","S","T","U","V","W","X","Y","Z">>

LowerOrder ==
    <<"a","b","c","d","e","f","g","h","i","j","k","l","m",
      "n","o","p","q","r","s","t","u","v","w","x","y","z">>

\* the characters of the model in code point order
AsciiOrder ==
    <<" ", "&", "-", "/">> \o
    <<"0","1","2","3","4","5","6","7","8","9">> \o
    UpperOrder \o <<"_">> \o LowerOrder \o <<"U+0663", "U+0667">>

IndexIn(seq, c) == CHOOSE i \in 1..Len(seq) : seq[i] = c

CodePoint(c) == IndexIn(AsciiOrder, c)

lower_char(c) ==
    IF c \in UpperLetters THEN LowerOrder[IndexIn(UpperOrder, c)] ELSE c

\* str.lower()
lower(chars) == [i \in 1..Len(chars) |-> lower_char(chars[i])]

RECURSIVE StrLE(_, _)
\* a <= b on Python strings
StrLE(a, b) ==
    IF a = <<>> THEN TRUE
    ELSE IF b = <<>> THEN FALSE
    ELSE IF CodePoint(Head(a)) < CodePoint(Head(b)) THEN TRUE
    ELSE IF CodePoint(Head(a)) > CodePoint(Head(b)) THEN FALSE
    ELSE StrLE(Tail(a), Tail(b))

RECURSIVE sorted(_)
sorted(S) ==
    IF S = {} THEN <<>>
    ELSE LET least == CHOOSE x \in S : \A y \in S : StrLE(x, y)
         IN  <<least>> \o sorted(S \ {least})

RECURSIVE SumAmount(_)
\* df['Amount'].sum()
SumAmount(rows) ==
    IF rows = <<>> THEN 0 ELSE Head(rows).Amount + SumAmount(Tail(rows))

Range(seq) == {seq[i] : i \in 1..Len(seq)}

(***************************************************************************)
(* Tab 1: the two uploads.                                                 *)
(***************************************************************************)
cols_1 ==
    <<"Tenants", "Contract Reference", "Start Date", "End Date",
      "No. of Cheques", "Installment Amount", "Contractual period (months)",
      "Months Per Cheque", "Rent As per Contract", "Service as per Contract">>

cols_2 == <<"Date", "Transaction Type", "No.", "Name", "Amount">>

NoneFrame == [none |-> TRUE, rows |-> <<>>]

DataFrame(rows) == [none |-> FALSE, rows |-> rows]

NoFile == [present |-> FALSE]

\* a numeric cell; a blank numeric cell is NaN
Num(n) == [tag |-> "int", v |-> n]

\* .fillna(0)
fillna0(cell) == IF cell.tag = "float" THEN 0 ELSE cell.v

NoAttempt ==
    [outcome |-> "none", missing |-> <<>>, rows_normalized |-> 0,
     codes_extracted |-> 0, stored |-> FALSE, table |-> NoneFrame]

\* the except branch: st.error, nothing stored
AttemptError ==
    [outcome |-> "error", missing |-> <<>>, rows_normalized |-> 0,
     codes_extracted |-> 0, stored |-> FALSE, table |-> NoneFrame]

\* the else branch: st.error with the missing names, nothing stored
AttemptMissing(missing) ==
    [outcome |-> "missing", missing |-> missing, rows_normalized |-> 0,
     codes_extracted |-> 0, stored |-> FALSE, table |-> NoneFrame]

AttemptStored(rows) ==
    [outcome |-> "ok", missing |-> <<>>, rows_normalized |-> Len(rows),
     codes_extracted |-> Len(rows), stored |-> TRUE,
     table |-> DataFrame(rows)]

\* mutant: the names that are present are listed
present_cols(cols, columns) == SelectSeq(cols, LAMBDA col : col \in columns)

\* [col for col in cols if col not in df.columns]
missing_cols(cols, columns) == SelectSeq(cols, LAMBDA col : col \notin columns)

contract_record(raw) ==
    [Tenants |-> raw.Tenants,
     ContractReference |-> raw.ContractReference,
     StartDate |-> normalize_date(raw.StartDate),
     EndDate |-> normalize_date(raw.EndDate),
     InstallmentAmount |-> raw.InstallmentAmount,
     TotalValue |-> fillna0(raw.Rent) + fillna0(raw.Service),
     ContractCode |-> extract_code_from_ref(raw.ContractReference).value]

\* the body of `if uploaded_file_1:` (the try block and its handlers)
process_contracts(file) ==
    IF ~file.readable THEN AttemptError
    ELSE LET missing_cols_1 == missing_cols(cols_1, file.columns)
         IN  IF missing_cols_1 # <<>> THEN AttemptMissing(missing_cols_1)
             ELSE IF \E i \in 1..Len(file.rows) :
                       extract_code_from_ref(
                           file.rows[i].ContractReference).raised
                 THEN AttemptError
             ELSE AttemptStored(
                    [i \in 1..Len(file.rows) |->
                        contract_record(file.rows[i])])

\* mutant: the type is compared as written
is_invoice_exact(raw) ==
    /\ isinstance_str(raw.TransactionType)
    /\ raw.TransactionType.chars = <<"i","n","v","o","i","c","e">>

\* df2['Transaction Type'].str.lower() == 'invoice' for one row; a cell that
\* is not text gives NaN, which is not equal
is_invoice(raw) ==
    /\ isinstance_str(raw.TransactionType)
    /\ lower(raw.TransactionType.chars) = <<"i","n","v","o","i","c","e">>

\* the .str accessor exists only on a column holding some text (or on an
\* empty column); otherwise the access raises AttributeError
str_accessor_raises(rows) ==
    /\ rows # <<>>
    /\ \A i \in 1..Len(rows) : ~isinstance_str(rows[i].TransactionType)

invoice_record(raw, index) ==
    [index |-> index,
     Date |-> normalize_date(raw.Date),
     Name |-> raw.Name,
     No |-> raw.No,
     ContractCode |-> extract_code_from_ref(raw.No).value,
     Amount |-> raw.Amount]

RECURSIVE filter_invoices(_, _)
\* the rows kept by the boolean mask, each with its index label
filter_invoices(rows, index) ==
    IF index > Len(rows) THEN <<>>
    ELSE (IF is_invoice(rows[index])
              THEN <<invoice_record(rows[index], index)>> ELSE <<>>)
         \o filter_invoices(rows, index + 1)

\* the body of `if uploaded_file_2:` (the try block and its handlers)
process_transactions(file) ==
    IF ~file.readable THEN AttemptError
    ELSE LET missing_cols_2 == missing_cols(cols_2, file.columns)
         IN  IF missing_cols_2 # <<>> THEN AttemptMissing(missing_cols_2)
             ELSE IF str_accessor_raises(file.rows) THEN AttemptError
             ELSE IF \E i \in 1..Len(file.rows) :
                       is_invoice(file.rows[i])
                           /\ extract_code_from_ref(file.rows[i].No).raised
                 THEN AttemptError
             ELSE LET kept == filter_invoices(file.rows, 1)
                  IN  [AttemptStored(kept) EXCEPT
                           !.rows_normalized = Len(kept),
                           !.codes_extracted = Len(kept)]

\* st.session_state.dfN = ... is reached only when processing succeeded
store(attempt, held) ==
    IF attempt.outcome = "ok" THEN attempt.table ELSE held

(***************************************************************************)
(* Tab 2: reconciliation.                                                  *)
(***************************************************************************)
\* mutant: the empty code is not filtered out
all_codes(df) == {df.rows[i].ContractCode : i \in 1..Len(df.rows)}

\* set(df[df['Contract Code'] != '']['Contract Code'].unique())
nonempty_codes(df) ==
    {df.rows[i].ContractCode : i \in 1..Len(df.rows)} \ {<<>>}

RecoNotComputed ==
    [computed |-> FALSE, codes_in_contracts |-> {}, codes_in_invoices |-> {},
     matched_codes |-> {}, missing_from_invoices |-> {},
     unmatched_invoices |-> {}]

reconcile(df1_p, df2_f) ==
    LET codes_in_contracts == nonempty_codes(df1_p)
        codes_in_invoices == nonempty_codes(df2_f)
    IN  [computed |-> TRUE,
         codes_in_contracts |-> codes_in_contracts,
         codes_in_invoices |-> codes_in_invoices,
         matched_codes |-> codes_in_contracts \cap codes_in_invoices,
         missing_from_invoices |-> codes_in_contracts \ codes_in_invoices,
         unmatched_invoices |-> codes_in_invoices \ codes_in_contracts]

\* mutant: the dashboard is shown as soon as the contracts are there
reco_guard_contracts_only(df1, df2) == ~df1.none

\* if df1_processed is not None and df2_final is not None
reco_guard(df1, df2) == ~df1.none /\ ~df2.none

tab_reco(df1, df2) ==
    IF reco_guard(df1, df2) THEN reconcile(df1, df2) ELSE RecoNotComputed

(***************************************************************************)
(* Tab 3: schedule and as-of-today status of the selected contract.        *)
(***************************************************************************)
NotRendered == [rendered |-> FALSE, options |-> <<>>]

\* sorted([code for code in df1_p['Contract Code'].unique() if code])
selectbox_options(df1) ==
    IF df1.none THEN NotRendered
    ELSE [rendered |-> TRUE, options |-> sorted(nonempty_codes(df1))]

\* if selected_code:
truthy(code) == code.tag = "str" /\ code.chars # <<>>

ScheduleNotGenerated ==
    [generated |-> FALSE, raised |-> FALSE, rows |-> <<>>]

\* df1_p[df1_p['Contract Code'] == selected_code].iloc[0]
contract_details(df1, code) ==
    LET first == CHOOSE i \in 1..Len(df1.rows) :
                    /\ df1.rows[i].ContractCode = code
                    /\ \A j \in 1..(i - 1) : df1.rows[j].ContractCode # code
    IN  df1.rows[first]

StatusNotComputed ==
    [computed |-> FALSE, expected_to_date |-> <<>>,
     estimated_value_as_of_today |-> 0, actual_paid_total |-> 0,
     missing_reported |-> FALSE, missing_invoices |-> <<>>]

NaNLabel == <<"NaN", 0>>

\* pd.to_datetime(Date, dayfirst=True).strftime('%B %Y') for one invoice
invoice_payment_month(record) ==
    LET parsed == to_datetime(record.Date, TRUE)
    IN  IF parsed.val.tag = "Timestamp" THEN strftime_BY(parsed.val)
        ELSE NaNLabel

\* mutant: entries dated strictly before today
due_before(entry, now) == DateLE(entry.PaymentDate, now) /\ entry.PaymentDate # now

\* schedule_df['PaymentDate'] <= today
due(entry, now) == DateLE(entry.PaymentDate, now)

status_analysis(schedule_rows, df2_f, code, now) ==
    LET expected_to_date_df ==
            SelectSeq(schedule_rows, LAMBDA entry : due(entry, now))
        invoices_for_contract ==
            SelectSeq(df2_f.rows, LAMBDA inv : inv.ContractCode = code)
        actual_payment_months ==
            {invoice_payment_month(invoices_for_contract[i]) :
                 i \in 1..Len(invoices_for_contract)}
    IN  [computed |-> TRUE,
         expected_to_date |-> expected_to_date_df,
         estimated_value_as_of_today |-> SumAmount(expected_to_date_df),
         actual_paid_total |-> SumAmount(invoices_for_contract),
         missing_reported |-> expected_to_date_df # <<>>,
         missing_invoices |->
             IF expected_to_date_df = <<>> THEN <<>>
             ELSE SelectSeq(expected_to_date_df,
                            LAMBDA entry :
                                entry.PaymentMonth \notin
                                    actual_payment_months)]

\* if df2_final is not None and not schedule_df.empty
status_guard(df2, sched) == ~df2.none /\ sched.rows # <<>>

\* the selectbox keeps its value while it is rendered with the same options
selectbox_value(previous, rendered, code) ==
    IF rendered.rendered /\ rendered = previous THEN code ELSE NoneValue

tab_schedule_schedule(df1, code) ==
    IF ~df1.none /\ truthy(code)
        THEN LET result ==
                     generate_payment_schedule(contract_details(df1, code.chars))
             IN  [generated |-> TRUE, raised |-> result.raised,
                  rows |-> result.rows]
    ELSE ScheduleNotGenerated

tab_schedule_status(df1, df2, code, sched, now) ==
    IF sched.generated /\ ~sched.raised /\ status_guard(df2, sched)
        THEN status_analysis(sched.rows, df2, code.chars, now)
    ELSE StatusNotComputed

SessionIdle ==
    /\ today = NaT
    /\ uploaded_file_1 = NoFile
    /\ uploaded_file_2 = NoFile
    /\ selected_code = NoneValue
    /\ df1_processed = NoneFrame
    /\ df2_final = NoneFrame
    /\ attempt_1 = NoAttempt
    /\ attempt_2 = NoAttempt
    /\ contract_codes = NotRendered
    /\ reco = RecoNotComputed
    /\ schedule_df = ScheduleNotGenerated
    /\ status = StatusNotComputed

(***************************************************************************)
(* Inputs of the schedule specification: a contract row whose date cells   *)
(* went through the upload's normalization, or a row handed over as is.    *)
(***************************************************************************)
YearSpan == 2

FirstYear == 2023 + 1

LastYear == 2023 + YearSpan

DaysOfInterest == {1, 10, 15, 28, 29, 30, 31}

SampleDays ==
    {ts \in [tag : {"Timestamp"}, y : FirstYear..LastYear, m : 1..12,
             d : DaysOfInterest] : IsCalendarDay(ts.y, ts.m, ts.d)}

DateCells == SampleDays \cup {NaT, NoneValue, GarbageText}

Amounts == {1000}

NoRow == [StartDate |-> NaT, EndDate |-> NaT, InstallmentAmount |-> 0,
         normalized |-> FALSE]

SchedulePending == [raised |-> FALSE, rows |-> <<>>, pending |-> TRUE]

ScheduleIdle ==
    /\ raw_contract = NoRow
    /\ contract_row = NoRow
    /\ schedule = SchedulePending

normalize_row(raw) ==
    [StartDate |-> normalize_date(raw.StartDate),
     EndDate |-> normalize_date(raw.EndDate),
     InstallmentAmount |-> raw.InstallmentAmount, normalized |-> TRUE]

InitSchedule ==
    /\ raw_contract \in [StartDate : DateCells, EndDate : DateCells,
                         InstallmentAmount : Amounts, normalized : BOOLEAN]
    /\ contract_row = IF raw_contract.normalized
                          THEN normalize_row(raw_contract) ELSE raw_contract
    /\ schedule = SchedulePending
    /\ reference = NaN
    /\ extracted = Pending
    /\ SessionIdle

\* the call generate_payment_schedule(contract_row)
Generate ==
    /\ schedule = SchedulePending
    /\ schedule' = generate_payment_schedule(contract_row)
    /\ UNCHANGED <<raw_contract, contract_row, parserVars, sessionVars>>

NextSchedule == Generate

SpecSchedule == InitSchedule /\ [][NextSchedule]_vars

(***************************************************************************)
(* Inputs of the parser specification.                                     *)
(***************************************************************************)
MaxRefLen == 6

RefAlphabet == {"K", "7", "/", "x", "U+0667"}

RECURSIVE StringsUpTo(_, _)
StringsUpTo(alphabet, n) ==
    IF n = 0 THEN {<<>>}
    ELSE LET shorter == StringsUpTo(alphabet, n - 1)
         IN  shorter \cup
             {Append(s, c) : s \in {t \in shorter : Len(t) = n - 1},
                             c \in alphabet}

RefJA588 ==
    <<"J","A","5","8","8","/","A","U","G","2","4","/","R","I","S","/",
      "1","2","5">>

RefR25 ==
    <<"R","2","5","/","K","S","V","/","2","2","7"," ","-"," ","6">>

RefNoSlash ==
    <<"n","o","-","s","l","a","s","h","-","h","e","r","e">>

ExampleRefs == {RefJA588, RefR25, RefNoSlash}

RefInputs ==
    {Text(s) : s \in StringsUpTo(RefAlphabet, MaxRefLen) \cup ExampleRefs}
        \cup {NaN, Number123}

InitExtract ==
    /\ reference \in RefInputs
    /\ extracted = Pending
    /\ ScheduleIdle
    /\ SessionIdle

\* the call extract_code_from_ref(reference)
Extract ==
    /\ extracted = Pending
    /\ extracted' = extract_code_from_ref(reference)
    /\ UNCHANGED <<reference, scheduleVars, sessionVars>>

NextExtract == Extract

SpecExtract == InitExtract /\ [][NextExtract]_vars

(***************************************************************************)
(* The session: sample workbooks, and one action per user interaction.     *)
(* Streamlit re-runs the whole script after each interaction.              *)
(***************************************************************************)
Day(y, m, d) == Timestamp(y, m, d)

RefK7 == <<"R","2","/","K","/","7">>

RefL2 == <<"L","/","2"," ","-"," ","6">>

RefLower == <<"n","o","n","e">>

NoInvK7 == <<"I","N","V"," ","K","/","7">>

NoK7 == <<"K","/","7">>

NoM9 == <<"M","/","9">>

NoL2 == <<"L","/","2">>

TypeInvoiceTitle == <<"I","n","v","o","i","c","e">>

TypeInvoiceUpper == <<"I","N","V","O","I","C","E">>

TypeInvoiceLower == <<"i","n","v","o","i","c","e">>

TypePayment == <<"P","a","y","m","e","n","t">>

ContractRow(tenant, ref, start, end, amount, rent, service) ==
    [Tenants |-> tenant, ContractReference |-> ref, StartDate |-> start,
     EndDate |-> end, InstallmentAmount |-> amount, Rent |-> rent,
     Service |-> service]

ContractAnn ==
    ContractRow("Ann", Text(RefK7), Day(2024, 1, 15), Day(2024, 4, 10), 1000,
                NaN, Num(50))

ContractBob ==
    ContractRow("Bob", Text(RefL2), Day(2024, 3, 1), Day(2024, 2, 1), 500,
                Num(100), Num(20))

ContractCy ==
    ContractRow("Cy", Text(RefLower), NaT, Day(2024, 6, 1), 300, NaN, NaN)

ContractDee ==
    ContractRow("Dee", NaN, GarbageText, NaT, 200, Num(10), NaN)

ContractEve ==
    ContractRow("Eve", Text(RefK7), Day(2024, 2, 1), Day(2024, 2, 28), 700,
                Num(70), Num(7))

Workbook(columns, rows) ==
    [present |-> TRUE, readable |-> TRUE, columns |-> columns, rows |-> rows]

Unreadable ==
    [present |-> TRUE, readable |-> FALSE, columns |-> {}, rows |-> <<>>]

ContractFiles ==
    {Workbook(Range(cols_1), <<ContractAnn>>),
     Workbook(Range(cols_1) \cup {"Notes"},
              <<ContractAnn, ContractBob, ContractCy>>),
     Workbook(Range(cols_1), <<ContractDee, ContractEve, ContractAnn>>),
     Workbook(Range(cols_1) \ {"Start Date"}, <<ContractAnn>>),
     Workbook((Range(cols_1) \ {"Tenants", "End Date"})
                  \cup {"tenants", "End Date "},
              <<ContractAnn, ContractBob>>),
     Unreadable}

InvoiceRow(date, type, no, name, amount) ==
    [Date |-> date, TransactionType |-> type, No |-> no, Name |-> name,
     Amount |-> amount]

InvoiceFebA ==
    InvoiceRow(Day(2024, 2, 10), Text(TypeInvoiceTitle), Text(NoInvK7),
               "Ann", 1000)

InvoiceFebB ==
    InvoiceRow(Day(2024, 2, 28), Text(TypeInvoiceUpper), Text(NoK7), "Ann",
               400)

InvoiceM9 ==
    InvoiceRow(Day(2024, 3, 1), Text(TypeInvoiceLower), Text(NoM9), "Mo", 300)

PaymentL2 ==
    InvoiceRow(Day(2024, 3, 5), Text(TypePayment), Text(NoL2), "Bob", 500)

UntypedL2 == InvoiceRow(Day(2024, 3, 6), NaN, Text(NoL2), "Bob", 500)

NumberTypeL2 ==
    InvoiceRow(Day(2024, 3, 7), Number123, Text(NoL2), "Bob", 500)

InvoiceNoRef ==
    InvoiceRow(NaT, Text(TypeInvoiceLower), NaN, "Zed", 50)

TransactionFiles ==
    {Workbook(Range(cols_2), <<InvoiceFebA>>),
     Workbook(Range(cols_2), <<InvoiceFebA, InvoiceFebB, InvoiceM9>>),
     Workbook(Range(cols_2) \cup {"Memo"},
              <<PaymentL2, UntypedL2, InvoiceNoRef, NumberTypeL2,
                InvoiceFebA, InvoiceM9>>),
     Workbook(Range(cols_2), <<UntypedL2, NumberTypeL2>>),
     Workbook(Range(cols_2), <<PaymentL2>>),
     Workbook(Range(cols_2) \ {"Date", "Amount"}, <<InvoiceFebA>>),
     Unreadable}

Todays == {Day(2024, 1, 20), Day(2024, 3, 20), Day(2024, 4, 1)}

InitSession ==
    /\ today \in Todays
    /\ uploaded_file_1 = NoFile
    /\ uploaded_file_2 = NoFile
    /\ selected_code = NoneValue
    /\ df1_processed = NoneFrame
    /\ df2_final = NoneFrame
    /\ attempt_1 = NoAttempt
    /\ attempt_2 = NoAttempt
    /\ contract_codes = NotRendered
    /\ reco = RecoNotComputed
    /\ schedule_df = ScheduleNotGenerated
    /\ status = StatusNotComputed
    /\ reference = NaN
    /\ extracted = Pending
    /\ ScheduleIdle

\* one run of the script with the given widget values
Run(file_1, file_2, chosen) ==
    LET a1 == IF file_1.present THEN process_contracts(file_1) ELSE NoAttempt
        a2 == IF file_2.present THEN process_transactions(file_2)
              ELSE NoAttempt
        df1 == store(a1, df1_processed)
        df2 == store(a2, df2_final)
        options == selectbox_options(df1)
        code == selectbox_value(contract_codes, options, chosen)
        sched == tab_schedule_schedule(df1, code)
    IN  /\ uploaded_file_1' = file_1
        /\ uploaded_file_2' = file_2
        /\ attempt_1' = a1
        /\ attempt_2' = a2
        /\ df1_processed' = df1
        /\ df2_final' = df2
        /\ reco' = tab_reco(df1, df2)
        /\ contract_codes' = options
        /\ selected_code' = code
        /\ schedule_df' = sched
        /\ status' = tab_schedule_status(df1, df2, code, sched, today)
        /\ UNCHANGED <<today, parserVars, scheduleVars>>

UploadContracts ==
    \E file \in ContractFiles :
        /\ file # uploaded_file_1
        /\ Run(file, uploaded_file_2, selected_code)

RemoveContracts ==
    /\ uploaded_file_1.present
    /\ Run(NoFile, uploaded_file_2, selected_code)

UploadTransactions ==
    \E file \in TransactionFiles :
        /\ file # uploaded_file_2
        /\ Run(uploaded_file_1, file, selected_code)

RemoveTransactions ==
    /\ uploaded_file_2.present
    /\ Run(uploaded_file_1, NoFile, selected_code)

SelectCode ==
    /\ contract_codes.rendered
    /\ \E code \in Range(contract_codes.options) :
          /\ Text(code) # selected_code
          /\ Run(uploaded_file_1, uploaded_file_2, Text(code))

ClearSelection ==
    /\ contract_codes.rendered
    /\ selected_code # NoneValue
    /\ Run(uploaded_file_1, uploaded_file_2, NoneValue)

NextSession ==
    \/ UploadContracts
    \/ RemoveContracts
    \/ UploadTransactions
    \/ RemoveTransactions
    \/ SelectCode
    \/ ClearSelection

SpecSession == InitSession /\ [][NextSession]_vars

(***************************************************************************)
(* The shape CODE/NUMBER, stated on substrings independently of the scan.  *)
(***************************************************************************)
\* s[i..j] is CODE '/' NUMBER with '/' at position k, NUMBER being written
\* with the given digit characters
ShapeWithSlashAt(s, i, k, j, number_chars) ==
    /\ i < k /\ k < j
    /\ s[k] = "/"
    /\ \A p \in i..(k - 1) : s[p] \in CodeChars
    /\ \A p \in (k + 1)..j : s[p] \in number_chars

IsShape(s, i, j, number_chars) ==
    /\ 1 <= i /\ j <= Len(s)
    /\ \E k \in i..j : ShapeWithSlashAt(s, i, k, j, number_chars)

\* the substrings of the shape CODE/NUMBER, digits being 0-9 throughout
ShapeSpans(s) ==
    {span \in (1..Len(s)) \X (1..Len(s)) :
        IsShape(s, span[1], span[2], Digits)}

HasShape(s) == ShapeSpans(s) # {}

\* the places where the returned value occurs in the reference as a
\* substring of the shape
ReturnedSpans(s, value) ==
    {span \in ShapeSpans(s) : SubSeq(s, span[1], span[2]) = value}

ExtractDone == extracted # Pending

\* C2: whenever the reference contains a substring of the shape CODE/NUMBER
\* (digits being 0-9), the result is such a substring and no substring of
\* that shape ends further right in the reference.
C2_RightmostEnd ==
    (ExtractDone /\ isinstance_str(reference) /\ HasShape(reference.chars)) =>
        \E r \in ReturnedSpans(reference.chars, extracted.value) :
            \A o \in ShapeSpans(reference.chars) : o[2] <= r[2]

\* C3: the call never raises; a non-text input returns "" without scanning,
\* a text without any CODE/NUMBER substring returns "", every other input
\* returns a non-empty code.
C3_NeverFails ==
    ExtractDone =>
        /\ ~extracted.raised
        /\ ~isinstance_str(reference) =>
              (extracted.value = <<>> /\ ~extracted.scanned)
        /\ (isinstance_str(reference) /\ ~HasShape(reference.chars)) =>
              extracted.value = <<>>
        /\ (isinstance_str(reference) /\ HasShape(reference.chars)) =>
              extracted.value # <<>>
        /\ reference = Text(RefNoSlash) => extracted.value = <<>>

(***************************************************************************)
(* Schedule Generator properties.                                          *)
(***************************************************************************)
ScheduleDone == schedule # SchedulePending

IsDate(cell) == cell.tag = "Timestamp"

DatesParseable == IsDate(raw_contract.StartDate) /\ IsDate(raw_contract.EndDate)

\* the first days of the calendar months that lie within [a, b]
MonthStartsWithin(a, b) ==
    {ts \in [tag : {"Timestamp"}, y : FirstYear..LastYear, m : 1..12,
             d : {1}] : DateLE(a, ts) /\ DateLE(ts, b)}

\* the calendar months that lie within [a, b] from first to last day
WholeMonthsWithin(a, b) ==
    {ym \in (FirstYear..LastYear) \X (1..12) :
        /\ DateLE(a, Timestamp(ym[1], ym[2], 1))
        /\ DateLE(Timestamp(ym[1], ym[2], DaysInMonth(ym[1], ym[2])), b)}

Jan15 == Timestamp(2024, 1, 15)

Mar10 == Timestamp(2024, 3, 10)

\* C4: with parseable dates the schedule has exactly one entry per calendar
\* month whose first day lies in [startDate, endDate], in strictly increasing
\* order; each entry is dated the first of its month, labelled 'MonthName
\* Year' and carries the installment amount.  15 Jan 2024 to 10 Mar 2024
\* gives February 2024 and March 2024.
C4_OneEntryPerMonthStart ==
    (ScheduleDone /\ DatesParseable) =>
        LET rows == schedule.rows
            within == MonthStartsWithin(raw_contract.StartDate, raw_contract.EndDate)
        IN  /\ ~schedule.raised
            /\ {rows[i].PaymentDate : i \in 1..Len(rows)} = within
            /\ Len(rows) = Cardinality(within)
            /\ \A i \in 1..Len(rows) : \A j \in 1..Len(rows) :
                  i < j => /\ DateLE(rows[i].PaymentDate, rows[j].PaymentDate)
                           /\ rows[i].PaymentDate # rows[j].PaymentDate
            /\ \A i \in 1..Len(rows) :
                  /\ rows[i].PaymentDate.d = 1
                  /\ rows[i].PaymentMonth =
                         <<MonthNames[rows[i].PaymentDate.m],
                           rows[i].PaymentDate.y>>
                  /\ rows[i].Amount = raw_contract.InstallmentAmount
            /\ (raw_contract.StartDate = Jan15 /\ raw_contract.EndDate = Mar10) =>
                  [i \in 1..Len(rows) |-> rows[i].PaymentMonth] =
                      << <<"February", 2024>>, <<"March", 2024>> >>

\* a schedule of several months was generated from a normalized row whose
\* start is not the first of a month
C4_Witness ==
    /\ ScheduleDone
    /\ DatesParseable
    /\ raw_contract.normalized
    /\ raw_contract.StartDate.d # 1
    /\ Len(schedule.rows) >= 2

DatesAbsent == ~IsDate(raw_contract.StartDate) \/ ~IsDate(raw_contract.EndDate)

\* C8 as stated: the schedule is empty, without an error, when a date is
\* absent or unparseable and whenever the range holds no whole calendar month.
C8_EmptyWhenNoWholeMonth ==
    ScheduleDone =>
        /\ ~schedule.raised
        /\ DatesAbsent => schedule.rows = <<>>
        /\ (DatesParseable /\
            WholeMonthsWithin(raw_contract.StartDate, raw_contract.EndDate) = {}) =>
              schedule.rows = <<>>

\* C8 amended: the schedule is empty, without an error, when a date is
\* absent or unparseable and whenever no first day of a calendar month lies
\* in [Start Date, End Date] (an end before the start, or both dates in one
\* month after its first day).
C8_EmptyWhenNoMonthStart ==
    ScheduleDone =>
        /\ ~schedule.raised
        /\ DatesAbsent => schedule.rows = <<>>
        /\ (DatesParseable /\
            MonthStartsWithin(raw_contract.StartDate, raw_contract.EndDate) = {}) =>
              schedule.rows = <<>>

\* an empty schedule came back for a row whose start date cell is blank
C8_Witness ==
    /\ ScheduleDone
    /\ raw_contract.normalized
    /\ raw_contract.StartDate = NaT
    /\ IsDate(raw_contract.EndDate)
    /\ contract_row.StartDate = EmptyText
    /\ schedule.rows = <<>>
    /\ ~schedule.raised

(***************************************************************************)
(* Session properties.                                                     *)
(***************************************************************************)
CodesOf(df) == {df.rows[i].ContractCode : i \in 1..Len(df.rows)}

\* C1: the reconciliation computes matched = A \cap B, missingFromInvoices =
\* A \ B and unmatchedInvoices = B \ A over the non-empty codes A of the
\* contracts and B of the invoices; the three sets are pairwise disjoint,
\* their union is A \cup B, and the empty code is in none of them.
C1_ReconciliationPartition ==
    reco.computed =>
        LET A == {c \in CodesOf(df1_processed) : c # <<>>}
            B == {c \in CodesOf(df2_final) : c # <<>>}
            matched == reco.matched_codes
            missing == reco.missing_from_invoices
            unmatched == reco.unmatched_invoices
        IN  /\ reco.codes_in_contracts = A
            /\ reco.codes_in_invoices = B
            /\ matched = A \cap B
            /\ missing = A \ B
            /\ unmatched = B \ A
            /\ matched \cap missing = {}
            /\ matched \cap unmatched = {}
            /\ missing \cap unmatched = {}
            /\ matched \cup missing \cup unmatched = A \cup B
            /\ <<>> \notin matched \cup missing \cup unmatched

\* both tables hold a row without a code and each of the three sets has a
\* member
C1_Witness ==
    /\ reco.computed
    /\ <<>> \in CodesOf(df1_processed)
    /\ <<>> \in CodesOf(df2_final)
    /\ reco.matched_codes # {}
    /\ reco.missing_from_invoices # {}
    /\ reco.unmatched_invoices # {}

\* the 'MonthName Year' label of a DD-MM-YYYY text, none for a blank date
MonthLabels(date) ==
    IF Len(date.fields) = 3
        THEN {<<MonthNames[date.fields[2]], date.fields[3]>>}
    ELSE {}

\* the month labels of the invoices logged against the selected code
PaidMonths ==
    UNION {MonthLabels(df2_final.rows[i].Date) :
              i \in {k \in 1..Len(df2_final.rows) :
                        df2_final.rows[k].ContractCode = selected_code.chars}}

DueEntries == {i \in 1..Len(schedule_df.rows) :
                  DateLE(schedule_df.rows[i].PaymentDate, today)}

RECURSIVE SumOver(_, _)
SumOver(rows, indices) ==
    IF indices = {} THEN 0
    ELSE LET i == CHOOSE k \in indices : TRUE
         IN  rows[i].Amount + SumOver(rows, indices \ {i})

\* three entries of 1000, two of them due, and every invoice of the
\* selected code dated in the first due month
ThreeEntriesScenario ==
    /\ Len(schedule_df.rows) = 3
    /\ \A i \in 1..3 : schedule_df.rows[i].Amount = 1000
    /\ DueEntries = {1, 2}
    /\ PaidMonths = {schedule_df.rows[1].PaymentMonth}

\* C5: expectedToDate is the sum of Amount over the schedule entries dated
\* on or before today; the missing invoices are exactly those entries whose
\* month label is the label of no invoice logged against the selected code,
\* whatever the number and amounts of the invoices of a month.  Three
\* entries of 1000, two due, one paid month: 2000 expected, 1 missing.
C5_StatusAnalysis ==
    status.computed =>
        /\ status.estimated_value_as_of_today =
               SumOver(schedule_df.rows, DueEntries)
        /\ Range(status.missing_invoices) =
               {schedule_df.rows[i] :
                   i \in {k \in DueEntries :
                             schedule_df.rows[k].PaymentMonth \notin
                                 PaidMonths}}
        /\ Len(status.missing_invoices) =
               Cardinality({k \in DueEntries :
                               schedule_df.rows[k].PaymentMonth \notin
                                   PaidMonths})
        /\ ThreeEntriesScenario =>
              /\ status.estimated_value_as_of_today = 2000
              /\ Len(status.missing_invoices) = 1

\* the three-entry scenario with two invoices of different amounts in the
\* paid month
C5_Witness ==
    /\ status.computed
    /\ ThreeEntriesScenario
    /\ \E i, j \in 1..Len(df2_final.rows) :
          /\ i # j
          /\ df2_final.rows[i].ContractCode = selected_code.chars
          /\ df2_final.rows[j].ContractCode = selected_code.chars
          /\ df2_final.rows[i].Date.fields[2] = df2_final.rows[j].Date.fields[2]
          /\ df2_final.rows[i].Amount # df2_final.rows[j].Amount
    /\ status.estimated_value_as_of_today = 2000
    /\ Len(status.missing_invoices) = 1

LacksColumns(file, cols) ==
    /\ file.present
    /\ file.readable
    /\ Range(cols) \ file.columns # {}

\* the required names absent from the file, in the order of the fixed list
IsAbsentList(list, cols, columns) ==
    /\ Range(list) = Range(cols) \ columns
    /\ \A i \in 1..Len(list) : \A j \in 1..Len(list) :
          i < j => IndexIn(cols, list[i]) < IndexIn(cols, list[j])

NothingComputed(attempt) ==
    /\ attempt.outcome = "missing"
    /\ attempt.rows_normalized = 0
    /\ attempt.codes_extracted = 0
    /\ ~attempt.stored
    /\ attempt.table = NoneFrame

\* C6: a run on a file that lacks required columns reports exactly the
\* absent required names in the order of the fixed list, normalizes no row,
\* extracts no code and stores no table for that upload (a contracts file
\* lacking only 'Start Date' reports <<"Start Date">>).
C6_MissingColumns ==
    [][ /\ LacksColumns(uploaded_file_1', cols_1) =>
              /\ NothingComputed(attempt_1')
              /\ IsAbsentList(attempt_1'.missing, cols_1,
                              uploaded_file_1'.columns)
              /\ df1_processed' = df1_processed
              /\ (uploaded_file_1'.columns = Range(cols_1) \ {"Start Date"})
                    => attempt_1'.missing = <<"Start Date">>
        /\ LacksColumns(uploaded_file_2', cols_2) =>
              /\ NothingComputed(attempt_2')
              /\ IsAbsentList(attempt_2'.missing, cols_2,
                              uploaded_file_2'.columns)
              /\ df2_final' = df2_final
      ]_vars

\* both uploaders hold a file that lacks columns; the contracts file lacks
\* two names
C6_Witness ==
    /\ LacksColumns(uploaded_file_1, cols_1)
    /\ LacksColumns(uploaded_file_2, cols_2)
    /\ attempt_1.missing = <<"Tenants", "End Date">>
    /\ attempt_2.missing = <<"Date", "Amount">>

Failed(attempt) == attempt.outcome \in {"missing", "error"}

\* C7: when the most recent processing attempt for a table failed, the
\* table's processed output held in the session is absent.
C7_FailedAttemptLeavesNoTable ==
    /\ Failed(attempt_1) => df1_processed.none
    /\ Failed(attempt_2) => df2_final.none

\* the type cell is text equal to "invoice" up to letter case
EqualsInvoiceIgnoringCase(cell) ==
    /\ cell.tag = "str"
    /\ Len(cell.chars) = Len(TypeInvoiceLower)
    /\ \A i \in 1..Len(cell.chars) :
          \/ cell.chars[i] = TypeInvoiceLower[i]
          \/ cell.chars[i] = TypeInvoiceUpper[i]

InvoiceRowsOf(file) ==
    {i \in 1..Len(file.rows) :
        EqualsInvoiceIgnoringCase(file.rows[i].TransactionType)}

\* C9: every row of the processed invoice table comes from an input row whose
\* type is "invoice" up to case, every such input row yields exactly one
\* processed row with the code extracted from its 'No.', and rows of another
\* or of a missing or non-text type contribute no row, code or amount.
C9_OnlyInvoiceRows ==
    /\ (/\ uploaded_file_2.present
        /\ uploaded_file_2.readable
        /\ Range(cols_2) \subseteq uploaded_file_2.columns
        /\ InvoiceRowsOf(uploaded_file_2) # {}) => attempt_2.outcome = "ok"
    /\ attempt_2.outcome = "ok" =>
          LET input == uploaded_file_2.rows
              output == df2_final.rows
          IN  /\ \A k \in 1..Len(output) :
                    /\ output[k].index \in InvoiceRowsOf(uploaded_file_2)
                    /\ output[k].No = input[output[k].index].No
                    /\ output[k].Amount = input[output[k].index].Amount
                    /\ output[k].ContractCode =
                           extract_code_from_ref(input[output[k].index].No).value
              /\ \A i \in InvoiceRowsOf(uploaded_file_2) :
                    Cardinality({k \in 1..Len(output) : output[k].index = i}) = 1
              /\ reco.computed =>
                    reco.codes_in_invoices =
                        {extract_code_from_ref(input[i].No).value :
                            i \in InvoiceRowsOf(uploaded_file_2)} \ {<<>>}

\* a log with invoices written in another case, a payment and rows whose
\* type is missing or a number has been processed
C9_Witness ==
    /\ attempt_2.outcome = "ok"
    /\ \E i \in 1..Len(uploaded_file_2.rows) :
          uploaded_file_2.rows[i].TransactionType = Text(TypeInvoiceTitle)
    /\ \E i \in 1..Len(uploaded_file_2.rows) :
          uploaded_file_2.rows[i].TransactionType = Text(TypePayment)
    /\ \E i \in 1..Len(uploaded_file_2.rows) :
          uploaded_file_2.rows[i].TransactionType = NaN
    /\ Len(df2_final.rows) = 3
    /\ reco.computed

\* C10: the reconciliation sets are computed only with both processed tables
\* present; a schedule is generated only with the contract table present and
\* a non-empty code selected from it; the status analysis is computed only
\* when, in addition, the invoice table is present and the schedule is not
\* empty.
C10_DependentComputationsGuarded ==
    /\ reco.computed => (~df1_processed.none /\ ~df2_final.none)
    /\ schedule_df.generated =>
          /\ ~df1_processed.none
          /\ selected_code.tag = "str"
          /\ selected_code.chars # <<>>
          /\ selected_code.chars \in CodesOf(df1_processed)
    /\ status.computed =>
          /\ schedule_df.generated
          /\ ~df2_final.none
          /\ schedule_df.rows # <<>>

\* all three computations ran in one run
C10_Witness ==
    /\ reco.computed
    /\ schedule_df.generated
    /\ status.computed

====
